---- MODULE Spec2Model ----
(***************************************************************************)
(* Model of src/index.js of serverless-compose: the variable resolver      *)
(* (resolveConfigurationVariables), the command routing and main flow      *)
(* (runComponents) and the process-wide exit listeners.                    *)
(*                                                                         *)
(* Strings are sequences of tokens.  The tokens "${", "}" and ":" are the  *)
(* punctuation the regular expressions of the resolver look for; "." and   *)
(* "-" are the two non-word characters a placeholder path may hold; every  *)
(* other token is a run of word characters (\w) that the model never       *)
(* splits.                                                                 *)
(***************************************************************************)
EXTENDS Integers, Sequences, FiniteSets, TLC

\* ------------------------------------------------------------------ bounds

\* Number of pieces (placeholders or literals) an input configuration holds,
\* over all of its string leaves.
MaxPieces == 3

\* ------------------------------------------------------------------ strings

OPEN == "${"
CLOSE == "}"
COLON == ":"

\* \w : the word tokens of the model's alphabet.
WordTok == {"sls", "stage", "env", "A", "A_", "M", "u", "v", "p", "x", "a", "dev",
            "prod"}

\* [\w\d.-] : the characters of a placeholder path in `regex`.
PathTok == WordTok \cup {".", "-"}

\* [\w.-_] of envRegex: \w, and the range from "." (0x2E) to "_" (0x5F),
\* which holds ":" and does not hold "-" (0x2D).
EnvClassTok == WordTok \cup {".", ":"}

Min(S) == CHOOSE x \in S : \A y \in S : x <= y

\* Last index of the longest run of tokens of class C that starts at i
\* (i - 1 when the run is empty).
RunEnd(s, i, C) ==
    CHOOSE e \in (i - 1)..Len(s) :
        /\ \A k \in i..e : s[k] \in C
        /\ (e = Len(s) \/ s[e + 1] \notin C)

\* /\${(\w*:[\w\d.-]+)}/ matched at position i of s: the index of the closing
\* brace, 0 when there is no match at i.
regexEnd(s, i) ==
    IF i > Len(s) \/ s[i] # OPEN THEN 0
    ELSE LET c == RunEnd(s, i + 1, WordTok) + 1
         IN  IF c > Len(s) \/ s[c] # COLON THEN 0
             ELSE LET e == RunEnd(s, c + 1, PathTok)
                  IN  IF e >= c + 1 /\ e + 1 <= Len(s) /\ s[e + 1] = CLOSE
                      THEN e + 1 ELSE 0

\* /\${sls:stage}/ matched at position i of s.
slsStageRegexEnd(s, i) ==
    IF i + 4 <= Len(s) /\ SubSeq(s, i, i + 4) = <<OPEN, "sls", COLON, "stage", CLOSE>>
    THEN i + 4 ELSE 0

\* /\${env:(\w*[\w.-_]+)}/ matched at position i of s.
envRegexEnd(s, i) ==
    IF i + 2 <= Len(s) /\ SubSeq(s, i, i + 2) = <<OPEN, "env", COLON>>
    THEN LET e == RunEnd(s, i + 3, EnvClassTok)
         IN  IF e >= i + 3 /\ e + 1 <= Len(s) /\ s[e + 1] = CLOSE THEN e + 1 ELSE 0
    ELSE 0

\* String.prototype.match with a global regular expression: every
\* non-overlapping match, left to right (<<>> stands for null).
RECURSIVE MatchAll(_, _)
MatchAll(s, i) ==
    IF i > Len(s) THEN <<>>
    ELSE LET e == regexEnd(s, i)
         IN  IF e > 0 THEN <<SubSeq(s, i, e)>> \o MatchAll(s, e + 1)
             ELSE MatchAll(s, i + 1)

\* RegExp.prototype.test of a global regular expression, given ends[i], the
\* end of its match at position i of the tested string (0: none): the search
\* starts at lastIndex; a hit leaves lastIndex at the end of the match, a miss
\* resets it to 0.  The result is the new lastIndex (0: test returned false).
RegexTest(ends, lastIndex) ==
    LET hits == {i \in (lastIndex + 1)..Len(ends) : ends[i] > 0}
    IN  IF hits = {} THEN 0 ELSE ends[Min(hits)]

\* String.prototype.replace with a string pattern: the first occurrence of m.
Replace(s, m, r) ==
    LET at == {i \in 1..(Len(s) - Len(m) + 1) : SubSeq(s, i, i + Len(m) - 1) = m}
    IN  IF at = {} THEN s
        ELSE LET i == Min(at)
             IN  SubSeq(s, 1, i - 1) \o r \o SubSeq(s, i + Len(m), Len(s))

\* String.prototype.split(':'), as the sequence of its parts.
RECURSIVE Split(_)
Split(s) ==
    LET cs == {i \in 1..Len(s) : s[i] = COLON}
    IN  IF cs = {} THEN <<s>>
        ELSE <<SubSeq(s, 1, Min(cs) - 1)>> \o Split(SubSeq(s, Min(cs) + 1, Len(s)))

\* match.substring(2, match.length - 1).split(':')
referencedPropertyPath(match) == Split(SubSeq(match, 2, Len(match) - 1))

\* match.slice(2).split(':')[0]
variableSource(match) == Split(SubSeq(match, 2, Len(match)))[1]

\* Whether a string holds placeholder syntax.
HasPlaceholder(s) == MatchAll(s, 1) # <<>>

\* ------------------------------------------------------------------ resolver

\* process.env: the variables A and A_dev are defined, every other name is not.
ProcessEnv == [n \in {<<"A">>, <<"A_", "dev">>} |-> <<"a">>]

NoError == [code |-> "none"]

\* Set.prototype.add on a Set kept in insertion order.
SetAdd(seq, x) ==
    IF \E i \in 1..Len(seq) : seq[i] = x THEN seq ELSE Append(seq, x)

\* One iteration of `for (const match of matches)`; st holds newValue, the
\* lastIndex of the two tested regular expressions, the unrecognized sources,
\* variableResolved and the error thrown, if any; st.made counts the
\* substitutions the traversal has made (an assignment to newValue).
MatchStep(value, match, stage, st) ==
    LET sls == RegexTest([i \in 1..Len(match) |-> slsStageRegexEnd(match, i)], st.slsLast)
        env == RegexTest([i \in 1..Len(match) |-> envRegexEnd(match, i)], st.envLast)
        name == referencedPropertyPath(match)[2]
    IN  IF sls > 0 THEN
            [st EXCEPT !.slsLast = sls,
                       !.variableResolved = TRUE,
                       !.made = st.made + 1,
                       !.newValue = Replace(st.newValue, match, stage)]
        ELSE IF env > 0 THEN
            IF name \notin DOMAIN ProcessEnv THEN
                [st EXCEPT !.slsLast = 0, !.envLast = env,
                           !.err = [code |-> "CANNOT_FIND_ENVIRONMENT_VARIABLE",
                                    name |-> name]]
            ELSE
                [st EXCEPT !.slsLast = 0, !.envLast = env,
                           !.variableResolved = TRUE,
                           !.made = st.made + 1,
                           !.newValue = IF match = value THEN ProcessEnv[name]
                                        ELSE Replace(value, match, ProcessEnv[name])]
        ELSE
            [st EXCEPT !.slsLast = 0, !.envLast = 0,
                       !.unrec = SetAdd(st.unrec, variableSource(match))]

RECURSIVE MatchLoop(_, _, _, _, _)
MatchLoop(value, matches, k, stage, st) ==
    IF k > Len(matches) \/ st.err # NoError THEN st
    ELSE MatchLoop(value, matches, k + 1, stage,
                   MatchStep(value, matches[k], stage, st))

\* traverse(configuration).forEach(...): the string leaves in document
\* order; a leaf with matches is updated in place once its matches are done.
RECURSIVE Traverse(_, _, _)
Traverse(i, stage, st) ==
    IF i > Len(st.cfg) \/ st.err # NoError THEN st
    ELSE LET value == st.cfg[i]
             matches == MatchAll(value, 1)
         IN  IF matches = <<>> THEN Traverse(i + 1, stage, st)
             ELSE LET done == MatchLoop(value, matches, 1, stage,
                                        [st EXCEPT !.newValue = value])
                  IN  IF done.err # NoError THEN done
                      ELSE Traverse(i + 1, stage,
                                    [done EXCEPT !.cfg[i] = done.newValue])

\* The body of one call of resolveConfigurationVariables up to the end of
\* the traversal: fresh regular expressions, variableResolved = false.
Pass(configuration, stage, unrecognizedVariableSources) ==
    Traverse(1, stage,
             [cfg |-> configuration, newValue |-> <<>>, slsLast |-> 0,
              envLast |-> 0, unrec |-> unrecognizedVariableSources,
              variableResolved |-> FALSE, err |-> NoError, made |-> 0])

\* What the call does after the traversal.
PassDecisionNoFixpoint(p) ==
    IF p.err # NoError THEN "throwEnv"
    ELSE IF p.unrec # <<>> THEN "throwUnrecognized"
    ELSE "return"

PassDecisionRetryUnrecognized(p) ==
    IF p.err # NoError THEN "throwEnv"
    ELSE IF p.variableResolved \/ p.unrec # <<>> THEN "recurse"
    ELSE "return"

PassDecision(p) ==
    IF p.err # NoError THEN "throwEnv"
    ELSE IF p.variableResolved THEN "recurse"
    ELSE IF p.unrec # <<>> THEN "throwUnrecognized"
    ELSE "return"

\* The whole (recursive) call: its outcome and the configuration it leaves.
RECURSIVE resolveConfigurationVariables(_, _, _)
resolveConfigurationVariables(configuration, stage, unrecognizedVariableSources) ==
    LET p == Pass(configuration, stage, unrecognizedVariableSources)
        d == PassDecision(p)
    IN  CASE d = "throwEnv" -> [status |-> "failed", err |-> p.err, cfg |-> p.cfg]
          [] d = "recurse" -> resolveConfigurationVariables(p.cfg, stage, p.unrec)
          [] d = "throwUnrecognized" ->
                [status |-> "failed",
                 err |-> [code |-> "UNRECOGNIZED_VARIABLE_SOURCES", names |-> p.unrec],
                 cfg |-> p.cfg]
          [] OTHER -> [status |-> "returned", err |-> NoError, cfg |-> p.cfg]

\* ------------------------------------------------------------------ inputs

\* The pieces input strings are built from.
Pieces ==
    << <<"x">>,
       <<OPEN, "sls", COLON, "stage", CLOSE>>,
       <<OPEN, "env", COLON, "A", CLOSE>>,
       <<OPEN, "env", COLON, "M", CLOSE>>,
       <<OPEN, "env", COLON, "A", "-", "M", CLOSE>>,
       <<OPEN, "u", COLON, "p", CLOSE>>,
       <<OPEN, "v", COLON, "p", CLOSE>>,
       <<OPEN, "env", COLON, "A_", OPEN, "sls", COLON, "stage", CLOSE, CLOSE>> >>

\* The configuration made of the pieces ps, cut[i] telling whether a leaf
\* ends after piece i.
RECURSIVE Build(_, _, _)
Build(ps, cut, i) ==
    IF i = Len(ps) THEN <<Pieces[ps[i]]>>
    ELSE LET rest == Build(ps, cut, i + 1)
         IN  IF cut[i] THEN <<Pieces[ps[i]]>> \o rest
             ELSE <<Pieces[ps[i]] \o Head(rest)>> \o Tail(rest)

Configurations ==
    UNION {{Build(ps, cut, 1) : ps \in [1..n -> 1..Len(Pieces)],
                                cut \in [1..(n - 1) -> BOOLEAN]} : n \in 1..MaxPieces}

Stages == {<<"dev">>}

\* ------------------------------------------------------------------ routing

\* A JavaScript value used as a condition: undefined and "" are falsy.  An
\* option that is present without a value (--debug) holds <<"true">>.
Truthy(v) == v # <<>>

\* obj[key], <<>> when the key is absent (undefined).
Get(obj, key) == IF key \in DOMAIN obj THEN obj[key] ELSE <<>>

\* delete obj[key]
Delete(obj, key) == [k \in DOMAIN obj \ {key} |-> obj[k]]

\* Array.prototype.join(':')
RECURSIVE JoinColon(_)
JoinColon(list) ==
    IF Len(list) = 0 THEN <<>>
    ELSE IF Len(list) = 1 THEN list[1]
    ELSE list[1] \o <<COLON>> \o JoinColon(Tail(list))

\* args.help || args._[0] === 'help'
helpRequested(a) ==
    \/ Truthy(Get(a, "help"))
    \/ (Len(a["_"]) >= 1 /\ a["_"][1] = <<"help">>)

\* `!method` after `method = args._`: an array, even an empty one, is truthy,
\* so this holds only when minimist's result has no "_" at all.
methodMissing(a) == "_" \notin DOMAIN a

\* Lines 198-209: method, options and componentName (<<>>: left undefined).
RouteFirstMethodOnly(a) ==
    LET raw == JoinColon(a["_"])
        methods == Split(raw)
    IN  IF Truthy(Get(a, "service")) THEN
            [componentName |-> <<a["service"]>>, method |-> raw,
             options |-> Delete(Delete(a, "service"), "_")]
        ELSE IF \E i \in 1..Len(raw) : raw[i] = COLON THEN
            [componentName |-> <<methods[1]>>, method |-> methods[2],
             options |-> Delete(a, "_")]
        ELSE
            [componentName |-> <<>>, method |-> raw, options |-> Delete(a, "_")]

Route(a) ==
    LET raw == JoinColon(a["_"])
        methods == Split(raw)
    IN  IF Truthy(Get(a, "service")) THEN
            [componentName |-> <<a["service"]>>, method |-> raw,
             options |-> Delete(Delete(a, "service"), "_")]
        ELSE IF \E i \in 1..Len(raw) : raw[i] = COLON THEN
            [componentName |-> <<methods[1]>>, method |-> JoinColon(Tail(methods)),
             options |-> Delete(a, "_")]
        ELSE
            [componentName |-> <<>>, method |-> raw, options |-> Delete(a, "_")]

\* Lines 187-209 as a function of the command line: the help, or the
\* invocation the rest of runComponents goes on with.
Router(a) ==
    IF helpRequested(a) \/ methodMissing(a) THEN [kind |-> "help"]
    ELSE LET r == Route(a)
         IN  [kind |-> "invocation", componentName |-> r.componentName,
              command |-> r.method, options |-> r.options]

\* getServerlessFile returns false when neither file exists.
fileFound(f) == f.type # "absent"

isComponentsTemplate(f) ==
    IF f.type # "object" THEN FALSE
    ELSE IF f.providerName THEN FALSE
    ELSE f.services

\* getConfiguration: an object template is returned as it is; a string is a
\* path, which the main flow never passes (isComponentsTemplate has refused it).
getConfiguration(f) ==
    IF f.type = "string" THEN [err |-> "REFERENCED_TEMPLATE_PATH_DOES_NOT_EXIST"]
    ELSE IF f.type # "object" THEN [err |-> "INVALID_TEMPLATE_FORMAT"]
    ELSE [err |-> "none"]

unsupportedGlobalCliOptions == <<"debug", "config", "param">>

reservedOptionSetDebugOnly(o) == Truthy(Get(o, "debug"))

reservedOptionSet(o) ==
    \E i \in 1..Len(unsupportedGlobalCliOptions) :
        Truthy(Get(o, unsupportedGlobalCliOptions[i]))

\* contextConfig
contextConfig(o, f) ==
    [stage |-> IF Truthy(Get(o, "stage")) THEN o["stage"] ELSE <<"dev">>,
     verbose |-> Get(o, "verbose"),
     appName |-> f.name]

\* Object.values(context.componentCommandsOutcomes).includes('failure')
hasFailureAll(o) == \A c \in DOMAIN o : o[c] = "failure"

hasFailure(o) == \E c \in DOMAIN o : o[c] = "failure"

\* The exit status of the normal path (lines 283-291); the result of the
\* transmission is not read.
normalExitCodeSendAware(o, sendOk) == IF hasFailure(o) \/ ~sendOk THEN 1 ELSE 0

normalExitCode(o, sendOk) == IF hasFailure(o) THEN 1 ELSE 0

\* ------------------------------------------------------------------ inputs of a run

Tokens(list) == "_" :> list

ArgsSet ==
    { Tokens(<< <<"deploy">> >>),
      Tokens(<< <<"myApi">>, <<"deploy">> >>),
      Tokens(<< <<"deploy">> >>) @@ ("service" :> <<"myApi">>),
      Tokens(<< <<"deploy">> >>) @@ ("service" :> <<>>),
      Tokens(<< <<"help">> >>),
      Tokens(<< <<"deploy">> >>) @@ ("help" :> <<"true">>),
      Tokens(<<>>),
      Tokens(<< <<"deploy">> >>) @@ ("debug" :> <<"true">>),
      Tokens(<< <<"deploy">> >>) @@ ("config" :> <<"x">>),
      Tokens(<< <<"deploy">> >>) @@ ("param" :> <<"x">>),
      Tokens(<< <<"myApi", COLON, "logs">>, <<"x">> >>) @@ ("stage" :> <<"prod">>)
                                                         @@ ("verbose" :> <<"true">>) }

Document(type, services, providerName, leaves) ==
    [type |-> type, services |-> services, providerName |-> providerName,
     name |-> <<"app">>, leaves |-> leaves]

Files ==
    { Document("absent", FALSE, FALSE, <<>>),
      Document("string", FALSE, FALSE, <<>>),
      Document("object", FALSE, FALSE, << <<"x">> >>),
      Document("object", TRUE, TRUE, << <<"x">> >>),
      Document("object", TRUE, FALSE, << <<"x">> >>),
      Document("object", TRUE, FALSE, << Pieces[2] \o <<"x">>, Pieces[3] >>),
      Document("object", TRUE, FALSE, << Pieces[4] >>),
      Document("object", TRUE, FALSE, << Pieces[6] >>) }

\* Two of the signals of signal-exit/signals: the one line 71 renames and the
\* one it renames it to.
Signals == {"SIGHUP", "SIGINT"}

\* The command lines and working directories of the modelled runs: every
\* command line in a directory with a valid document, and every kind of
\* directory under a plain and under a reserved-option command line.
Runs ==
    (ArgsSet \X {Document("object", TRUE, FALSE, << Pieces[2] \o <<"x">>, Pieces[3] >>)})
    \cup ({Tokens(<< <<"deploy">> >>),
           Tokens(<< <<"deploy">> >>) @@ ("debug" :> <<"true">>)} \X Files)

Platforms == {"win32", "linux"}

Components == {"myApi", "db"}

\* What the Components Service may have recorded when an invocation ends.
OutcomeSets ==
    { [c \in {} |-> "success"],
      [c \in {"myApi"} |-> "failure"],
      [c \in Components |-> "success"],
      [c \in Components |-> IF c = "db" THEN "failure" ELSE "success"] }

\* ------------------------------------------------------------------ state

VARIABLES
    rconfiguration,   \* the configuration of the resolver call in progress
    rstage,           \* its stage
    runrec,           \* unrecognizedVariableSources, in insertion order
    rstatus,          \* "running", "returned", "failed"
    rerr,             \* the error thrown
    rpasses,          \* calls of resolveConfigurationVariables made (recursion depth)
    rlastResolved,    \* variableResolved of the last traversal
    rinput,           \* the configuration the outermost call was given
    rcall,            \* 1: the first resolution, 2: resolution of its result
    rfirst            \* the result of the first resolution

rvars == <<rconfiguration, rstage, runrec, rstatus, rerr, rpasses, rlastResolved,
           rinput, rcall, rfirst>>

VARIABLES
    args,             \* minimist's result: option key -> value, "_" -> the positional tokens
    serverlessFile,   \* what getServerlessFile finds in the working directory
    platform,         \* process.platform
    options,          \* the module-level `options`      (<<>>: still undefined)
    method,           \* the module-level `method`       (<<>>: still undefined)
    componentName,    \* the module-level `componentName`
    configurationForTelemetry,
    context,          \* the module-level `context`
    pc,               \* where runComponents stands
    mainError,        \* the error that left runComponents (its promise rejected)
    caught,           \* the errors the catch block of runComponents received
    invoked,          \* the call made to the Components Service (<<>>: none)
    outcomes,         \* context.componentCommandsOutcomes
    stored,           \* the calls of storeTelemetryLocally, in order
    sends,            \* the calls of sendTelemetry made
    telemetryFailed,  \* a local store or a transmission has failed
    logged,           \* the errors handleError has reported
    helpRendered,     \* renderHelp was called
    uncaught,         \* the uncaughtException listener: "armed", "sending", "threw", "done"
    uncaughtContext,  \* whether `context` was set when it fired
    signalsFired,     \* the signals whose listener has run
    raisedSignal,     \* the signal process.kill sent to the process ("none": none)
    alive,            \* the process has not terminated
    exitCode,         \* its exit status (-1: none)
    exitBy,           \* what terminated it
    registered,       \* per event, the listeners process.once has registered
    signalYielded     \* the signals whose listener found another listener

VARIABLES
    rtC,              \* a component name
    rtT,              \* positional tokens
    rtOpts,           \* the other options of the command line
    rtPlain,          \* what [rtC] ++ rtT is routed to, no service option (<<>>: not yet)
    rtService         \* what rtT is routed to, with the service option rtC

tvars == <<rtC, rtT, rtOpts, rtPlain, rtService>>

lvars == <<args, serverlessFile, platform, options, method, componentName,
           configurationForTelemetry, context, pc, mainError, caught, invoked,
           outcomes, stored, sends, telemetryFailed, logged, helpRendered, uncaught,
           uncaughtContext, signalsFired, raisedSignal, alive, exitCode, exitBy,
           registered, signalYielded>>

vars == <<rvars, lvars, tvars>>

ResolverInit ==
    /\ rconfiguration \in Configurations
    /\ rstage \in Stages
    /\ runrec = <<>>
    /\ rstatus = "running"
    /\ rerr = NoError
    /\ rpasses = 0
    /\ rlastResolved = FALSE
    /\ rinput = rconfiguration
    /\ rcall = 1
    /\ rfirst = <<>>

ThePass == Pass(rconfiguration, rstage, runrec)

\* A call whose traversal substituted something: it calls itself again.
PassRecurse ==
    /\ rstatus = "running"
    /\ PassDecision(ThePass) = "recurse"
    /\ rconfiguration' = ThePass.cfg
    /\ runrec' = ThePass.unrec
    /\ rpasses' = rpasses + 1
    /\ rlastResolved' = ThePass.variableResolved
    /\ UNCHANGED <<rstage, rstatus, rerr, rinput, rcall, rfirst>>
    /\ UNCHANGED <<lvars, tvars>>

\* A traversal that throws the missing-environment-variable error.
PassThrowEnv ==
    /\ rstatus = "running"
    /\ PassDecision(ThePass) = "throwEnv"
    /\ rconfiguration' = ThePass.cfg
    /\ runrec' = ThePass.unrec
    /\ rpasses' = rpasses + 1
    /\ rlastResolved' = ThePass.variableResolved
    /\ rstatus' = "failed"
    /\ rerr' = ThePass.err
    /\ UNCHANGED <<rstage, rinput, rcall, rfirst>>
    /\ UNCHANGED <<lvars, tvars>>

\* A call that throws the unrecognized-sources error.
PassThrowUnrecognized ==
    /\ rstatus = "running"
    /\ PassDecision(ThePass) = "throwUnrecognized"
    /\ rconfiguration' = ThePass.cfg
    /\ runrec' = ThePass.unrec
    /\ rpasses' = rpasses + 1
    /\ rlastResolved' = ThePass.variableResolved
    /\ rstatus' = "failed"
    /\ rerr' = [code |-> "UNRECOGNIZED_VARIABLE_SOURCES", names |-> ThePass.unrec]
    /\ UNCHANGED <<rstage, rinput, rcall, rfirst>>
    /\ UNCHANGED <<lvars, tvars>>

\* A call that returns the configuration.
PassReturn ==
    /\ rstatus = "running"
    /\ PassDecision(ThePass) = "return"
    /\ rconfiguration' = ThePass.cfg
    /\ runrec' = ThePass.unrec
    /\ rpasses' = rpasses + 1
    /\ rlastResolved' = ThePass.variableResolved
    /\ rstatus' = "returned"
    /\ UNCHANGED <<rstage, rerr, rinput, rcall, rfirst>>
    /\ UNCHANGED <<lvars, tvars>>

\* The result of a successful resolution is resolved again: a new outermost
\* call, with the default (empty) set of unrecognized sources.
ResolveAgain ==
    /\ rstatus = "returned"
    /\ rcall = 1
    /\ rcall' = 2
    /\ rfirst' = rconfiguration
    /\ rstatus' = "running"
    /\ runrec' = <<>>
    /\ rpasses' = 0
    /\ rlastResolved' = FALSE
    /\ UNCHANGED <<rconfiguration, rstage, rerr, rinput>>
    /\ UNCHANGED <<lvars, tvars>>

\* ------------------------------------------------------------------ the run

\* The state the resolver's variables keep while a run is modelled.
ResolverIdle ==
    /\ rconfiguration = <<>>
    /\ rstage = <<"dev">>
    /\ runrec = <<>>
    /\ rstatus = "idle"
    /\ rerr = NoError
    /\ rpasses = 0
    /\ rlastResolved = FALSE
    /\ rinput = <<>>
    /\ rcall = 0
    /\ rfirst = <<>>

\* The router's variables while a run or the resolver is modelled.
RouterIdle ==
    /\ rtC = <<>>
    /\ rtT = <<>>
    /\ rtOpts = <<>>
    /\ rtPlain = <<>>
    /\ rtService = <<>>

\* The events lines 28 and 48-49 register a listener for.
Events == {"uncaughtException"} \cup Signals

\* process.once of line 28 and of line 49, for every signal of the list.
registerListenersNoSignals(reg) ==
    [e \in DOMAIN reg |-> IF e = "uncaughtException" THEN reg[e] + 1 ELSE reg[e]]

registerListeners(reg) == [e \in DOMAIN reg |-> reg[e] + 1]

\* The module is being loaded: nothing of the run state is set (lines 22-26)
\* and no listener is registered yet.
RunInit ==
    /\ options = <<>>
    /\ method = <<>>
    /\ componentName = <<>>
    /\ configurationForTelemetry = <<>>
    /\ context = <<>>
    /\ pc = "load"
    /\ mainError = "none"
    /\ caught = <<>>
    /\ invoked = <<>>
    /\ outcomes = <<>>
    /\ stored = <<>>
    /\ sends = 0
    /\ telemetryFailed = FALSE
    /\ logged = <<>>
    /\ helpRendered = FALSE
    /\ uncaught = "armed"
    /\ uncaughtContext = FALSE
    /\ signalsFired = {}
    /\ raisedSignal = "none"
    /\ alive = TRUE
    /\ exitCode = -1
    /\ exitBy = "none"
    /\ registered = [e \in Events |-> 0]
    /\ signalYielded = {}

\* The state the run's variables keep while the resolver alone is modelled.
RunIdle ==
    /\ args = Tokens(<<>>)
    /\ serverlessFile = Document("absent", FALSE, FALSE, <<>>)
    /\ platform = "linux"
    /\ RunInit

\* generateTelemetryPayload handed to storeTelemetryLocally.  The store
\* swallows its own failure and returns; telemetryFailed remembers it.
Payload(by, error, signal) ==
    [by |-> by, error |-> error, interruptSignal |-> signal,
     configuration |-> configurationForTelemetry # <<>>,
     command |-> method, componentName |-> componentName,
     usedContext |-> IF context = <<>> THEN "fallback" ELSE "main"]

\* storeTelemetryLocally(payload, context): the record is handed to the local
\* store, which keeps a failure of its own to itself and returns.
storeTelemetryLocally(payload) == Append(stored, payload)

\* How the promise of sendTelemetry(context) settles: the transmission
\* swallows its own failure, so the promise resolves whether or not the
\* transmission succeeded.
sendTelemetry(sendOk) == "resolved"

\* The catch block of runComponents up to its await (lines 292-307).
Catch(e, storeOk, failedBefore) ==
    /\ caught' = Append(caught, e)
    /\ logged' = Append(logged, e)
    /\ stored' = storeTelemetryLocally(Payload("catch", e, "none"))
    /\ sends' = sends + 1
    /\ telemetryFailed' = (telemetryFailed \/ failedBefore \/ ~storeOk)
    /\ pc' = "sendCatch"

\* process.exit(code)
Exit(code, by) ==
    /\ alive' = FALSE
    /\ exitCode' = code
    /\ exitBy' = by

\* The body of the module runs (lines 22-74): the listeners are registered;
\* runComponents, which the module exports, can be called from then on.
ModuleLoad ==
    /\ alive /\ pc = "load"
    /\ registered' = registerListeners(registered)
    /\ pc' = "start"
    /\ UNCHANGED <<args, serverlessFile, platform, options, method, componentName,
                   configurationForTelemetry, context, mainError, caught, invoked,
                   outcomes, stored, sends, telemetryFailed, logged, helpRendered,
                   uncaught, uncaughtContext, signalsFired, raisedSignal, alive,
                   exitCode, exitBy, signalYielded>>
    /\ UNCHANGED <<rvars, tvars>>

\* runComponents from its call to its first await (lines 187-236).
RunStart ==
    /\ alive /\ pc = "start"
    /\ IF helpRequested(args) \/ methodMissing(args) THEN
           /\ helpRendered' = TRUE
           /\ pc' = "renderHelp"
           /\ UNCHANGED <<options, method, componentName, context, mainError>>
       ELSE
           LET r == Route(args)
           IN  /\ method' = <<r.method>>
               /\ options' = <<r.options>>
               /\ componentName' = r.componentName
               /\ UNCHANGED helpRendered
               /\ IF ~fileFound(serverlessFile) THEN
                      /\ mainError' = "CONFIGURATION_FILE_NOT_FOUND"
                      /\ pc' = "rejected"
                      /\ UNCHANGED context
                  ELSE IF ~isComponentsTemplate(serverlessFile) THEN
                      /\ mainError' = "INVALID_CONFIGURATION"
                      /\ pc' = "rejected"
                      /\ UNCHANGED context
                  ELSE
                      /\ context' = <<contextConfig(r.options, serverlessFile)>>
                      /\ pc' = "contextInit"
                      /\ UNCHANGED mainError
    /\ UNCHANGED <<args, serverlessFile, platform, configurationForTelemetry, caught,
                   invoked, outcomes, stored, sends, telemetryFailed, logged, uncaught,
                   uncaughtContext, signalsFired, raisedSignal, alive, exitCode, exitBy>>
    /\ UNCHANGED <<registered, signalYielded>>
    /\ UNCHANGED <<rvars, tvars>>

\* renderHelp has resolved: runComponents returns (lines 189-190, 195-196).
RunHelpReturn ==
    /\ alive /\ pc = "renderHelp"
    /\ pc' = "returned"
    /\ UNCHANGED <<args, serverlessFile, platform, options, method, componentName,
                   configurationForTelemetry, context, mainError, caught, invoked,
                   outcomes, stored, sends, telemetryFailed, logged, helpRendered,
                   uncaught, uncaughtContext, signalsFired, raisedSignal, alive,
                   exitCode, exitBy>>
    /\ UNCHANGED <<registered, signalYielded>>
    /\ UNCHANGED <<rvars, tvars>>

\* context.init() has resolved: lines 237-259, up to the await of
\* componentsService.init().  Nothing here waits for input or output, so no
\* listener runs in between.
RunConfigure ==
    /\ alive /\ pc = "contextInit"
    /\ LET template == getConfiguration(serverlessFile)
           res == resolveConfigurationVariables(serverlessFile.leaves,
                                                context[1].stage, <<>>)
       IN  IF template.err # "none" THEN
               /\ mainError' = template.err
               /\ pc' = "rejected"
               /\ UNCHANGED configurationForTelemetry
           ELSE IF res.status = "failed" THEN
               /\ mainError' = res.err.code
               /\ pc' = "rejected"
               /\ UNCHANGED configurationForTelemetry
           ELSE IF reservedOptionSet(options[1]) THEN
               /\ configurationForTelemetry' = <<res.cfg>>
               /\ mainError' = "INVALID_CLI_OPTION"
               /\ pc' = "rejected"
           ELSE
               /\ configurationForTelemetry' = <<res.cfg>>
               /\ pc' = "serviceInit"
               /\ UNCHANGED mainError
    /\ UNCHANGED <<args, serverlessFile, platform, options, method, componentName,
                   context, caught, invoked, outcomes, stored, sends, telemetryFailed,
                   logged, helpRendered, uncaught, uncaughtContext, signalsFired,
                   raisedSignal, alive, exitCode, exitBy>>
    /\ UNCHANGED <<registered, signalYielded>>
    /\ UNCHANGED <<rvars, tvars>>

\* componentsService.init() has settled: the command is invoked (lines
\* 261-265), or the error is caught.
RunInvoke ==
    /\ alive /\ pc = "serviceInit"
    /\ \E ok \in BOOLEAN, storeOk \in BOOLEAN :
         IF ok THEN
             /\ storeOk
             /\ invoked' = <<[kind |-> IF Truthy(componentName) /\ Truthy(componentName[1])
                                       THEN "component" ELSE "global",
                              componentName |-> componentName,
                              command |-> method[1],
                              options |-> options[1]]>>
             /\ pc' = "invoke"
             /\ UNCHANGED <<caught, logged, stored, sends, telemetryFailed>>
         ELSE
             /\ Catch("COMPONENTS_SERVICE_INIT_ERROR", storeOk, FALSE)
             /\ UNCHANGED invoked
    /\ UNCHANGED <<args, serverlessFile, platform, options, method, componentName,
                   configurationForTelemetry, context, mainError, outcomes,
                   helpRendered, uncaught, uncaughtContext, signalsFired, raisedSignal,
                   alive, exitCode, exitBy>>
    /\ UNCHANGED <<registered, signalYielded>>
    /\ UNCHANGED <<rvars, tvars>>

\* The invocation has settled: telemetry is stored and its transmission
\* started (lines 267-279), or the error is caught.
RunInvoked ==
    /\ alive /\ pc = "invoke"
    /\ \E o \in OutcomeSets, ok \in BOOLEAN, storeOk \in BOOLEAN :
         /\ outcomes' = o
         /\ IF ok THEN
                /\ stored' = storeTelemetryLocally(Payload("normal", "none", "none"))
                /\ sends' = sends + 1
                /\ telemetryFailed' = (telemetryFailed \/ ~storeOk)
                /\ pc' = "sendTry"
                /\ UNCHANGED <<caught, logged>>
            ELSE
                Catch("COMPONENT_COMMAND_ERROR", storeOk, FALSE)
    /\ UNCHANGED <<args, serverlessFile, platform, options, method, componentName,
                   configurationForTelemetry, context, mainError, invoked,
                   helpRendered, uncaught, uncaughtContext, signalsFired, raisedSignal,
                   alive, exitCode, exitBy>>
    /\ UNCHANGED <<registered, signalYielded>>
    /\ UNCHANGED <<rvars, tvars>>

\* sendTelemetry of the normal path has settled: context.shutdown(), then
\* process.exit (lines 280-291); a rejection, or an error of shutdown, is
\* caught.
RunFinish ==
    /\ alive /\ pc = "sendTry"
    /\ \E sendOk \in BOOLEAN, shutdownOk \in BOOLEAN, storeOk \in BOOLEAN :
         IF sendTelemetry(sendOk) = "rejected" THEN
             /\ shutdownOk
             /\ Catch("TELEMETRY_ERROR", storeOk, ~sendOk)
             /\ UNCHANGED <<alive, exitCode, exitBy>>
         ELSE IF shutdownOk THEN
             /\ storeOk
             /\ telemetryFailed' = (telemetryFailed \/ ~sendOk)
             /\ Exit(normalExitCode(outcomes, sendOk), "main")
             /\ pc' = "exited"
             /\ UNCHANGED <<caught, logged, stored, sends>>
         ELSE
             /\ Catch("SHUTDOWN_ERROR", storeOk, ~sendOk)
             /\ UNCHANGED <<alive, exitCode, exitBy>>
    /\ UNCHANGED <<args, serverlessFile, platform, options, method, componentName,
                   configurationForTelemetry, context, mainError, invoked, outcomes,
                   helpRendered, uncaught, uncaughtContext, signalsFired, raisedSignal>>
    /\ UNCHANGED <<registered, signalYielded>>
    /\ UNCHANGED <<rvars, tvars>>

\* sendTelemetry of the catch block has settled: process.exit(1) (line 308);
\* a rejection would leave runComponents.
RunCatchExit ==
    /\ alive /\ pc = "sendCatch"
    /\ \E sendOk \in BOOLEAN :
         /\ telemetryFailed' = (telemetryFailed \/ ~sendOk)
         /\ IF sendTelemetry(sendOk) = "rejected" THEN
                /\ mainError' = "TELEMETRY_ERROR"
                /\ pc' = "rejected"
                /\ UNCHANGED <<alive, exitCode, exitBy>>
            ELSE
                /\ Exit(1, "main")
                /\ pc' = "exited"
                /\ UNCHANGED mainError
    /\ UNCHANGED <<args, serverlessFile, platform, options, method, componentName,
                   configurationForTelemetry, context, caught, invoked,
                   outcomes, stored, sends, logged, helpRendered, uncaught,
                   uncaughtContext, signalsFired, raisedSignal>>
    /\ UNCHANGED <<registered, signalYielded>>
    /\ UNCHANGED <<rvars, tvars>>

\* The uncaughtException listener (lines 28-46) up to the call of
\* sendTelemetry.  With `context` still undefined, `context.logger` of line 44
\* throws a TypeError inside the listener: the process dies with status 7.
UncaughtException ==
    /\ alive /\ uncaught = "armed"
    /\ registered["uncaughtException"] >= 1
    /\ \E storeOk \in BOOLEAN :
         /\ stored' = storeTelemetryLocally(Payload("uncaughtException", "UNCAUGHT", "none"))
         /\ telemetryFailed' = (telemetryFailed \/ ~storeOk)
    /\ uncaughtContext' = (context # <<>>)
    /\ IF context = <<>> THEN
           /\ uncaught' = "threw"
           /\ Exit(7, "listenerError")
           /\ UNCHANGED <<logged, sends>>
       ELSE
           /\ uncaught' = "sending"
           /\ logged' = Append(logged, "UNCAUGHT")
           /\ sends' = sends + 1
           /\ UNCHANGED <<alive, exitCode, exitBy>>
    /\ UNCHANGED <<args, serverlessFile, platform, options, method, componentName,
                   configurationForTelemetry, context, pc, mainError, caught, invoked,
                   outcomes, helpRendered, signalsFired, raisedSignal>>
    /\ UNCHANGED <<registered, signalYielded>>
    /\ UNCHANGED <<rvars, tvars>>

\* The listener's sendTelemetry has settled: `.then` calls process.exit(1)
\* (line 45); nothing handles a rejection.
UncaughtExit ==
    /\ alive /\ uncaught = "sending"
    /\ \E sendOk \in BOOLEAN :
         /\ telemetryFailed' = (telemetryFailed \/ ~sendOk)
         /\ IF sendTelemetry(sendOk) = "rejected" THEN
                UNCHANGED <<alive, exitCode, exitBy>>
            ELSE
                Exit(1, "uncaughtException")
    /\ uncaught' = "done"
    /\ UNCHANGED <<args, serverlessFile, platform, options, method, componentName,
                   configurationForTelemetry, context, pc, mainError, caught, invoked,
                   outcomes, stored, sends, logged, helpRendered, uncaughtContext,
                   signalsFired, raisedSignal>>
    /\ UNCHANGED <<registered, signalYielded>>
    /\ UNCHANGED <<rvars, tvars>>

\* The signal lines 71-72 send to the process.
raisedForSameSignal(signal) == signal

raisedFor(signal) ==
    IF platform = "win32" /\ signal = "SIGHUP" THEN "SIGINT" ELSE signal

\* The listener of one signal (lines 49-73); isOtherSigintListener is what
\* process.listenerCount answers when it runs.
SignalListener ==
    /\ alive
    /\ \E signal \in Signals \ signalsFired, isOtherSigintListener \in BOOLEAN,
          storeOk \in BOOLEAN :
         /\ registered[signal] >= 1
         /\ signalsFired' = signalsFired \cup {signal}
         /\ stored' = storeTelemetryLocally(Payload("signal", "none", signal))
         /\ telemetryFailed' = (telemetryFailed \/ ~storeOk)
         /\ IF isOtherSigintListener THEN
                /\ signalYielded' = signalYielded \cup {signal}
                /\ UNCHANGED <<raisedSignal, alive, exitCode, exitBy>>
            ELSE
                /\ raisedSignal' = raisedFor(signal)
                /\ Exit(-1, "signal")
                /\ UNCHANGED signalYielded
    /\ UNCHANGED <<args, serverlessFile, platform, options, method, componentName,
                   configurationForTelemetry, context, pc, mainError, caught, invoked,
                   outcomes, sends, logged, helpRendered, uncaught, uncaughtContext>>
    /\ UNCHANGED registered
    /\ UNCHANGED <<rvars, tvars>>

Init ==
    /\ \E run \in Runs : args = run[1] /\ serverlessFile = run[2]
    /\ platform \in Platforms
    /\ RunInit
    /\ ResolverIdle
    /\ RouterIdle

Next ==
    \/ ModuleLoad
    \/ RunStart
    \/ RunHelpReturn
    \/ RunConfigure
    \/ RunInvoke
    \/ RunInvoked
    \/ RunFinish
    \/ RunCatchExit
    \/ UncaughtException
    \/ UncaughtExit
    \/ SignalListener

Spec == Init /\ [][Next]_vars

\* ------------------------------------------------------------------ the resolver alone

ResolverStart == ResolverInit /\ RunIdle /\ RouterIdle

ResolverNext ==
    \/ PassRecurse
    \/ PassThrowEnv
    \/ PassThrowUnrecognized
    \/ PassReturn
    \/ ResolveAgain

SpecResolver == ResolverStart /\ [][ResolverNext]_vars

\* ------------------------------------------------------------------ the router alone

\* The longest list of positional tokens routed.
MaxTokens == 2

RouterNames == {<<"myApi">>, <<"db">>, <<"help">>, <<>>}

RouterTokens == {<<"deploy">>, <<"help">>, <<"myApi">>, <<>>, <<"logs", COLON, "tail">>}

RouterOptions ==
    { [k \in {} |-> <<>>],
      "stage" :> <<"prod">>,
      "help" :> <<"true">> }

RouterInit ==
    /\ rtC \in RouterNames
    /\ rtT \in UNION {[1..n -> RouterTokens] : n \in 0..MaxTokens}
    /\ rtOpts \in RouterOptions
    /\ rtPlain = <<>>
    /\ rtService = <<>>

\* The tokens [rtC] ++ rtT are routed, with no service option.
RoutePlain ==
    /\ rtPlain = <<>>
    /\ rtPlain' = <<Router(Tokens(<<rtC>> \o rtT) @@ rtOpts)>>
    /\ UNCHANGED <<rtC, rtT, rtOpts, rtService>>
    /\ UNCHANGED <<rvars, lvars>>

\* The tokens rtT are routed, with the service option rtC.
RouteService ==
    /\ rtService = <<>>
    /\ rtService' = <<Router(Tokens(rtT) @@ ("service" :> rtC) @@ rtOpts)>>
    /\ UNCHANGED <<rtC, rtT, rtOpts, rtPlain>>
    /\ UNCHANGED <<rvars, lvars>>

RouterStart == RouterInit /\ RunIdle /\ ResolverIdle

RouterNext ==
    \/ RoutePlain
    \/ RouteService

SpecRouter == RouterStart /\ [][RouterNext]_vars

\* ------------------------------------------------------------------ properties of a run

\* Some recorded sub-command outcome is 'failure'.
SomeFailureOutcome == \E c \in DOMAIN outcomes : outcomes[c] = "failure"

\* The exit status the main flow owes: 0 when nothing was caught and no
\* outcome is a failure, 1 otherwise.
OwedExitCode == IF caught = <<>> /\ ~SomeFailureOutcome THEN 0 ELSE 1

\* C1: when runComponents itself exits the process (lines 288, 290, 308), the
\* status is 0 exactly when the invocation and the finalization raised no error
\* and no recorded outcome is 'failure', and it is 1 in every other case.
C1_ExitStatusOfMainFlow ==
    exitBy = "main" =>
        /\ exitCode \in {0, 1}
        /\ (exitCode = 0) <=> (caught = <<>> /\ ~SomeFailureOutcome)

\* C1 witness: nothing was thrown, one outcome is a failure, the exit status is 1.
C1_Witness ==
    /\ exitBy = "main" /\ exitCode = 1
    /\ caught = <<>> /\ SomeFailureOutcome
    /\ \E c \in DOMAIN outcomes : outcomes[c] = "success"

\* C2: whenever the process has terminated or runComponents has finished (by
\* returning or by rejecting), a telemetry record has been handed to the local
\* store.
C2_TelemetryStoredOnEveryPath ==
    (~alive \/ pc \in {"returned", "rejected"}) => stored # <<>>

C4_DomainErrorsHandledInMainFlow ==
    /\ pc # "rejected"
    /\ mainError = "none"
    /\ \A i \in 1..Len(caught) :
         /\ \E j \in 1..Len(logged) : logged[j] = caught[i]
         /\ \E j \in 1..Len(stored) : stored[j].error = caught[i]
         /\ exitBy = "main" => exitCode = 1

\* C5: an uncaughtException listener that fires while `context` is still
\* unset completes its steps without raising: the telemetry is stored, the
\* error is reported through a logger, the transmission is attempted, and the
\* exit it makes has status 1.
C5_ListenerToleratesUnsetContext ==
    (uncaught # "armed" /\ ~uncaughtContext) =>
        /\ uncaught # "threw"
        /\ \E j \in 1..Len(stored) : stored[j].by = "uncaughtException"
        /\ \E j \in 1..Len(logged) : logged[j] = "UNCAUGHT"
        /\ sends >= 1
        /\ exitBy # "listenerError"
        /\ (uncaught = "done" => exitCode = 1)

\* C6: once the uncaughtException listener has fired, the main flow never
\* terminates the process with status 0.
C6_NoZeroExitAfterUncaught ==
    (uncaught # "armed" /\ exitBy = "main") => exitCode = 1

\* ------------------------------------------------------------------ properties of the resolver

\* The placeholders of a configuration, leaf by leaf, in document order.
RECURSIVE Placeholders(_)
Placeholders(cfg) ==
    IF cfg = <<>> THEN <<>> ELSE MatchAll(Head(cfg), 1) \o Placeholders(Tail(cfg))

IsStagePlaceholder(m) == m = <<OPEN, "sls", COLON, "stage", CLOSE>>

IsEnvPlaceholder(m) == m[2] = "env" /\ m[3] = COLON

\* The variable an ${env:X} placeholder names.
EnvName(m) == SubSeq(m, 4, Len(m) - 1)

IsDefinedEnvPlaceholder(m) == IsEnvPlaceholder(m) /\ EnvName(m) \in DOMAIN ProcessEnv

IsUndefinedEnvPlaceholder(m) == IsEnvPlaceholder(m) /\ EnvName(m) \notin DOMAIN ProcessEnv

\* A placeholder whose source is neither sls nor env.
IsForeignPlaceholder(m) == m[2] \notin {"sls", "env"}

\* The distinct sources of the foreign placeholders, in first-seen order.
RECURSIVE ForeignSources(_)
ForeignSources(ms) ==
    IF ms = <<>> THEN <<>>
    ELSE LET before == ForeignSources(SubSeq(ms, 1, Len(ms) - 1))
             m == ms[Len(ms)]
             source == SubSeq(m, 2, Min({i \in 1..Len(m) : m[i] = COLON}) - 1)
         IN  IF IsForeignPlaceholder(m) /\ \A i \in 1..Len(before) : before[i] # source
             THEN Append(before, source) ELSE before

NoPlaceholderLeft(cfg) == \A i \in 1..Len(cfg) : ~HasPlaceholder(cfg[i])

\* C7: a configuration whose placeholders are only ${sls:stage} and ${env:X}
\* with X defined is resolved without failure, and what is returned holds no
\* placeholder.
C7_RecognizedPlaceholdersResolve ==
    (rcall = 1 /\ \A k \in 1..Len(Placeholders(rinput)) :
                     \/ IsStagePlaceholder(Placeholders(rinput)[k])
                     \/ IsDefinedEnvPlaceholder(Placeholders(rinput)[k]))
    => /\ rstatus # "failed"
       /\ rstatus = "returned" => NoPlaceholderLeft(rconfiguration)

\* C8: with placeholders that are ${sls:stage}, ${env:X} with X defined, or of
\* a foreign source, and at least one of the last kind, the resolution fails
\* with the unrecognized-sources error, after a pass that substituted nothing,
\* and the error names the distinct foreign sources in first-seen order and
\* nothing else.
C8_UnrecognizedSourcesNamed ==
    (/\ rcall = 1
     /\ \A k \in 1..Len(Placeholders(rinput)) :
            \/ IsStagePlaceholder(Placeholders(rinput)[k])
            \/ IsDefinedEnvPlaceholder(Placeholders(rinput)[k])
            \/ IsForeignPlaceholder(Placeholders(rinput)[k])
     /\ \E k \in 1..Len(Placeholders(rinput)) :
            IsForeignPlaceholder(Placeholders(rinput)[k]))
    => /\ rstatus # "returned"
       /\ rstatus = "failed" =>
            /\ rerr.code = "UNRECOGNIZED_VARIABLE_SOURCES"
            /\ ~rlastResolved
            /\ rerr.names = ForeignSources(Placeholders(rinput))

\* C9: a configuration that holds an ${env:X} placeholder with X undefined
\* fails with the missing-environment-variable error, which names such an X,
\* whatever other placeholders it holds.
C9_MissingEnvironmentVariableNamed ==
    (/\ rcall = 1
     /\ \E k \in 1..Len(Placeholders(rinput)) :
            IsUndefinedEnvPlaceholder(Placeholders(rinput)[k]))
    => /\ rstatus # "returned"
       /\ rstatus = "failed" =>
            /\ rerr.code = "CANNOT_FIND_ENVIRONMENT_VARIABLE"
            /\ \E k \in 1..Len(Placeholders(rinput)) :
                   /\ IsUndefinedEnvPlaceholder(Placeholders(rinput)[k])
                   /\ rerr.name = EnvName(Placeholders(rinput)[k])

\* C10: a configuration without placeholders is returned unchanged by a
\* single pass, and resolving the result of a successful resolution again
\* returns that result unchanged, by a single pass.
C10_ResolutionIdempotent ==
    /\ (rcall = 1 /\ NoPlaceholderLeft(rinput) /\ rstatus # "running")
       => (rstatus = "returned" /\ rconfiguration = rinput /\ rpasses = 1)
    /\ (rcall = 2 /\ rpasses >= 1)
       => (rstatus = "returned" /\ rconfiguration = rfirst /\ rpasses = 1)

\* C10 witness: a configuration that held placeholders was resolved, and the
\* second resolution of its result has returned.
C10_Witness ==
    /\ rcall = 2 /\ rstatus = "returned"
    /\ rfirst # rinput
    /\ rconfiguration = rfirst

\* ------------------------------------------------------------------ properties of the router

\* One of the options debug, config, param is set on the command line.
ReservedOptionGiven ==
    \E k \in {"debug", "config", "param"} : k \in DOMAIN args /\ args[k] # <<>>

\* C11: a command line that sets debug, config or param (and asks for no
\* help) is rejected with the reserved-option error before any configuration
\* work: once the main flow has taken its first step the run stands rejected
\* with INVALID_CLI_OPTION, no context was created and no configuration was
\* read or resolved.
C11_ReservedOptionRejectedFirst ==
    (ReservedOptionGiven /\ ~helpRequested(args) /\ pc \notin {"load", "start"})
    => /\ pc = "rejected"
       /\ mainError = "INVALID_CLI_OPTION"
       /\ context = <<>>
       /\ configurationForTelemetry = <<>>

\* The three cases in which the router is to answer with the help text.
HelpCase ==
    \/ ("help" \in DOMAIN args /\ args["help"] # <<>>)
    \/ (Len(args["_"]) >= 1 /\ args["_"][1] = <<"help">>)
    \/ args["_"] = <<>>

\* C12: with the help flag set, with `help` as first positional token, or with
\* no positional token, the first step of the main flow renders the help, and
\* the run invokes nothing and touches no configuration: no context, no
\* options, no error of the configuration.
C12_HelpRequestedCases ==
    (HelpCase /\ pc \notin {"load", "start"})
    => /\ helpRendered
       /\ pc \in {"renderHelp", "returned"}
       /\ invoked = <<>>
       /\ context = <<>>
       /\ options = <<>>
       /\ mainError = "none"

\* A component name and a token list of the kind the equivalence is about,
\* routed both ways.
RoutedBothWays ==
    /\ rtC # <<>> /\ \A i \in 1..Len(rtC) : rtC[i] # COLON
    /\ rtT # <<>> /\ rtT[1] # <<"help">>
    /\ rtPlain # <<>> /\ rtService # <<>>

\* What both routings are to give.
SameInvocation ==
    /\ rtPlain[1] = rtService[1]
    /\ rtPlain[1].kind = "invocation"
    /\ rtPlain[1].componentName = <<rtC>>
    /\ rtPlain[1].command = JoinColon(rtT)
    /\ rtPlain[1].options = rtOpts

\* Without a service option the raw command is split at its first colon only:
\* the component name, a colon and the command make the raw command again.
SplitAtFirstColon ==
    (rtPlain # <<>> /\ rtPlain[1].kind = "invocation" /\ rtPlain[1].componentName # <<>>)
    => rtPlain[1].componentName[1] \o <<COLON>> \o rtPlain[1].command
         = JoinColon(<<rtC>> \o rtT)

\* C13 as stated: for every non-empty component name c without a colon and
\* every non-empty token list t whose first token is not `help`, routing
\* [c] ++ t without a service option and routing t with the service option c
\* give the same invocation (component c, command t joined by colons, the same
\* options), and the split of the raw command is at its first colon only.
C13_RoutingEquivalence ==
    /\ RoutedBothWays => SameInvocation
    /\ SplitAtFirstColon

\* C13 amended: the same, for a component name other than `help` and a
\* command line without the help flag.
C13_RoutingEquivalenceUnlessHelp ==
    /\ (RoutedBothWays /\ rtC # <<"help">> /\ "help" \notin DOMAIN rtOpts)
       => SameInvocation
    /\ SplitAtFirstColon

\* C13 witness: a component and two tokens, one of them holding a colon, have
\* been routed both ways, with an option that is passed through.
C13_Witness ==
    /\ RoutedBothWays /\ rtC = <<"myApi">>
    /\ Len(rtT) = 2 /\ \E i \in 1..Len(rtT[2]) : rtT[2][i] = COLON
    /\ "stage" \in DOMAIN rtOpts
    /\ rtPlain[1].kind = "invocation"

\* ------------------------------------------------------------------ properties of the listeners

\* The telemetry records the listener of signal s has stored among st.
SignalRecords(st, s) ==
    Cardinality({j \in 1..Len(st) : st[j].by = "signal" /\ st[j].interruptSignal = s})

\* C14: the step in which the listener of a signal s runs either finds
\* another listener of s, and then raises nothing and terminates nothing, the
\* main flow standing where it stood and free to go on; or it raises s again
\* and the process ends by that signal, SIGINT taking the place of SIGHUP on
\* win32.  A listener that has run never runs again.
C14_SignalListenerYieldsOrReraises ==
    [][\A s \in Signals :
         /\ (s \in signalsFired' /\ s \notin signalsFired) =>
              IF s \in signalYielded'
              THEN /\ alive /\ alive'
                   /\ raisedSignal' = raisedSignal
                   /\ exitCode' = exitCode /\ exitBy' = exitBy
                   /\ pc' = pc
              ELSE /\ ~alive' /\ exitBy' = "signal"
                   /\ raisedSignal' = IF platform = "win32" /\ s = "SIGHUP"
                                      THEN "SIGINT" ELSE s
         /\ s \in signalsFired =>
              /\ s \in signalsFired'
              /\ SignalRecords(stored', s) = SignalRecords(stored, s)
              /\ SignalRecords(stored, s) = 1]_vars

\* C14 witness: on win32 the listener of SIGINT found another listener, the
\* main flow went on to invoke the command, and the listener of SIGHUP then
\* raised SIGINT.
C14_Witness ==
    /\ platform = "win32"
    /\ "SIGINT" \in signalYielded
    /\ invoked # <<>>
    /\ "SIGHUP" \in signalsFired \ signalYielded
    /\ raisedSignal = "SIGINT" /\ ~alive
    /\ stored[Len(stored)].interruptSignal = "SIGHUP"
    /\ \E j \in 1..Len(stored) : stored[j].command # <<>> /\ stored[j].interruptSignal = "SIGINT"

\* C15: at every moment of every run each transmission attempt made so far
\* was preceded by a local store of its own, and no more than one local store
\* and no more than one transmission attempt have been made.
C15_OneStoreOneTransmission ==
    /\ sends <= Len(stored)
    /\ Len(stored) <= 1
    /\ sends <= 1

\* The stage the run resolves its configuration with.
StageOfRun ==
    IF "stage" \in DOMAIN args /\ args["stage"] # <<>> THEN args["stage"] ELSE <<"dev">>

\* The resolution of the variables of the document fails.
ResolutionFails ==
    /\ serverlessFile.type = "object"
    /\ resolveConfigurationVariables(serverlessFile.leaves, StageOfRun, <<>>).status
         = "failed"

\* A run that must not reach the Components Service.
RunToRefuse ==
    \/ serverlessFile.type = "absent"
    \/ serverlessFile.type # "object"
    \/ ~serverlessFile.services
    \/ serverlessFile.providerName
    \/ ResolutionFails
    \/ ReservedOptionGiven

\* C16: with no configuration file, with a document of invalid shape, with a
\* failing resolution of the variables or with a reserved option set, the
\* Components Service is never constructed, initialized or invoked: the run
\* never stands at or after the construction of line 258, and no invocation
\* and no catch of line 292 has happened.
C16_NoServiceOnRefusedRun ==
    RunToRefuse =>
        /\ pc \notin {"serviceInit", "invoke", "sendTry", "sendCatch", "exited"}
        /\ invoked = <<>>
        /\ outcomes = <<>>
        /\ caught = <<>>

\* C16 witness: a valid document, whose variables resolve, and the option
\* --config: the run was rejected after the whole preparation.
C16_Witness ==
    /\ "config" \in DOMAIN args
    /\ ~ResolutionFails /\ serverlessFile.services /\ ~serverlessFile.providerName
    /\ pc = "rejected"
    /\ configurationForTelemetry # <<>>
    /\ invoked = <<>>

\* What is left of the command line args in the mapping opts: neither
\* `service` nor `_`, and every other key with its value.
OptionsPassedOn(opts) ==
    /\ "service" \notin DOMAIN opts
    /\ "_" \notin DOMAIN opts
    /\ DOMAIN opts = DOMAIN args \ {"service", "_"}
    /\ \A k \in DOMAIN opts : opts[k] = args[k]

\* C18: the options recorded in the run state, and the options handed to the
\* Components Service, hold neither `service` nor `_` and hold every other
\* option of the command line unchanged, a service option with an empty value
\* included.
C18_ServiceAndTokensRemoved ==
    /\ options # <<>> => OptionsPassedOn(options[1])
    /\ invoked # <<>> => OptionsPassedOn(invoked[1].options)

\* C17: each listener is registered once and never again, and the main flow
\* takes no step before all are registered; so, from the first step of the
\* main flow on and as long as the process lives, the uncaughtException
\* listener can run until it has run, and so can the listener of every signal
\* that has not had its turn.
C17_ListenersInstalledFirst ==
    /\ \A e \in Events : registered[e] <= 1
    /\ (\E e \in Events : registered[e] = 0) =>
         /\ pc = "load"
         /\ options = <<>> /\ method = <<>> /\ context = <<>>
         /\ ~helpRendered /\ mainError = "none"
    /\ pc # "load" => \A e \in Events : registered[e] = 1
    /\ (pc # "load" /\ alive /\ uncaught = "armed") => ENABLED UncaughtException
    /\ (pc # "load" /\ alive /\ signalsFired # Signals) => ENABLED SignalListener

\* C17 witness: the main flow waits for context.init(); the SIGINT listener
\* has run once and found another listener; the uncaughtException listener
\* and the SIGHUP listener are still installed.
C17_Witness ==
    /\ pc = "contextInit" /\ alive
    /\ signalsFired = {"SIGINT"}
    /\ uncaught = "armed"
    /\ \A e \in Events : registered[e] = 1
    /\ ENABLED UncaughtException

\* ------------------------------------------------------------------ properties of a pass

\* The number of "${" a string, and a configuration, hold.
CountOpenIn(str) == Cardinality({i \in 1..Len(str) : str[i] = OPEN})

RECURSIVE CountOpen(_)
CountOpen(cfg) ==
    IF cfg = <<>> THEN 0 ELSE CountOpenIn(Head(cfg)) + CountOpen(Tail(cfg))

\* C19: a traversal that completes writes back, for every leaf, the result of
\* all the substitutions it made for that leaf.  A substitution takes one
\* "${" away and brings none, so the configuration after the traversal holds
\* as many "${" fewer as substitutions were made.
C19_PassKeepsEverySubstitution ==
    [][(rpasses' = rpasses + 1 /\ ThePass.err = NoError)
       => CountOpen(rconfiguration') = CountOpen(rconfiguration) - ThePass.made]_vars

\* C20 as stated: the resolution ends after at most P + 1 passes, P being the
\* number of placeholder occurrences of the initial configuration.
C20_PassesBoundedByPlaceholders ==
    rcall = 1 => rpasses <= Len(Placeholders(rinput)) + 1

\* C20 amended: while the resolution runs a pass can always be made, and the
\* passes made so far and the "${" still in the configuration are together no
\* more than the "${" of the initial configuration: every pass that is
\* repeated has taken at least one away.  So the resolution ends after at
\* most one pass per "${" of the initial configuration, and one more.
C20_PassesBoundedByOpeners ==
    rcall = 1 =>
        /\ rpasses <= CountOpen(rinput) + 1
        /\ rstatus = "running" =>
             /\ rpasses + CountOpen(rconfiguration) <= CountOpen(rinput)
             /\ PassDecision(ThePass) \in {"recurse", "throwEnv", "throwUnrecognized",
                                           "return"}

\* C20 witness: ${env:A_${sls:stage}} holds one placeholder occurrence and
\* two "${"; its resolution has returned after three passes.
C20_Witness ==
    /\ rcall = 1 /\ rstatus = "returned"
    /\ rinput = <<Pieces[8]>>
    /\ Len(Placeholders(rinput)) = 1 /\ CountOpen(rinput) = 2
    /\ rpasses = 3
    /\ rconfiguration = << <<"a">> >>

====
